---- MODULE Spec2Model ----
(***************************************************************************)
(* Hand-controlled snake game (src/Program/Snake.py).                      *)
(*                                                                         *)
(* The state is the SnakeGame object (snake, direction, food, score,       *)
(* game_over, prev_hand_pos), the locals of main() that live across loop   *)
(* iterations (current_speed, last_update, hand_pos, distance, new_dir),    *)
(* the position of main() inside its loop (pc) and the number of times the *)
(* camera and the windows have been released.                              *)
(*                                                                         *)
(* Units: landmark coordinates are in thousandths of the frame (the        *)
(* detector's normalised coordinates times 1000), time is in milliseconds. *)
(* elapsed is time.time() - last_update.  distance2 is the square of the   *)
(* local `distance`, so that it stays an integer.  Floating-point rounding *)
(* of the speed formula is not modelled: it is evaluated exactly.          *)
(***************************************************************************)
EXTENDS Integers, Sequences, FiniteSets, TLC

VARIABLES snake, direction, food, score, game_over, prev_hand_pos,
          current_speed, elapsed, hand_pos, distance2, new_dir, pc, released

game == <<snake, direction, food, score, game_over>>
vars == <<snake, direction, food, score, game_over, prev_hand_pos,
          current_speed, elapsed, hand_pos, distance2, new_dir, pc, released>>

(***************************************************************************)
(* Program constants.                                                      *)
(***************************************************************************)
GRID_SIZE == 20
MIN_SPEED == 5
MAX_SPEED == 20
\* MIN_DISTANCE = 0.1 and MAX_DISTANCE = 0.4, in thousandths.
MIN_DISTANCE == 100
MAX_DISTANCE == 400
\* The displacement threshold of the gesture classifier, in pixels.
GESTURE_THRESHOLD == 20

(***************************************************************************)
(* Bounds of the model.                                                    *)
(***************************************************************************)
\* Frame size reported by the camera, in pixels.
WIDTH == 60
HEIGHT == 40
\* Time between two frames, in ms.
DtFrame == 100
\* elapsed saturates here; it is above 1000/MIN_SPEED, the longest interval.
MaxElapsed == 210

GRID_WIDTH == WIDTH \div GRID_SIZE
GRID_HEIGHT == HEIGHT \div GRID_SIZE

None == <<>>

Cells == (0 .. GRID_WIDTH - 1) \X (0 .. GRID_HEIGHT - 1)

Dts == {DtFrame}

\* Wrist landmarks the detector may report (thousandths of the frame).
Wrists == {<<170, 100>>, <<500, 100>>, <<520, 100>>, <<170, 640>>, <<520, 640>>}
\* Offsets from the wrist to the middle finger tip (thousandths).
TipOffsets == {<<0, 0>>, <<150, 200>>, <<300, 400>>}

(***************************************************************************)
(* Pure helpers.                                                           *)
(***************************************************************************)
Min(a, b) == IF a < b THEN a ELSE b
Max(a, b) == IF a > b THEN a ELSE b
Abs(a) == IF a < 0 THEN -a ELSE a

Range(s) == {s[i] : i \in 1 .. Len(s)}

\* Python's `x in self.snake`.
InSnake(c, s) == c \in Range(s)

\* Python's int() applied to the quotient a / b (b > 0): truncation to zero.
TruncDiv(a, b) == IF a >= 0 THEN a \div b ELSE -((-a) \div b)

\* int(landmark * size) for a landmark in thousandths.
Pixel(coord, size) == TruncDiv(coord * size, 1000)

\* hand_pos = (int(wrist.x * WIDTH), int(wrist.y * HEIGHT))
HandPos(wrist) == <<Pixel(wrist[1], WIDTH), Pixel(wrist[2], HEIGHT)>>

\* The squared wrist-to-tip distance, in thousandths squared.
Distance2(wrist, tip) ==
    (wrist[1] - tip[1]) * (wrist[1] - tip[1]) + (wrist[2] - tip[2]) * (wrist[2] - tip[2])

\* int((distance - MIN_DISTANCE) / (MAX_DISTANCE - MIN_DISTANCE) * (MAX_SPEED - MIN_SPEED))
\* for distance = sqrt(d2), computed exactly by comparing squares.
SpeedSteps(d2) ==
    LET r   == MAX_SPEED - MIN_SPEED
        den == MAX_DISTANCE - MIN_DISTANCE
        lo  == MIN_DISTANCE * r
        kmax == (2 * 1000 * r) \div den
        jmax == lo \div den
        up(k) == d2 * r * r >= (lo + k * den) * (lo + k * den)
        dn(j) == d2 * r * r <= (lo - j * den) * (lo - j * den)
    IN  IF up(0)
        THEN CHOOSE k \in 0 .. kmax : up(k) /\ (k = kmax \/ ~up(k + 1))
        ELSE -(CHOOSE j \in 0 .. jmax : dn(j) /\ (j = jmax \/ ~dn(j + 1)))

\* Mutant of Clamp: the lower clamp is missing.
ClampUpperOnly(speed) == Min(speed, MAX_SPEED)

\* speed = max(MIN_SPEED, min(speed, MAX_SPEED))
Clamp(speed) == Max(MIN_SPEED, Min(speed, MAX_SPEED))

\* The speed process_hands returns when a hand is detected.
SpeedOf(d2) == Clamp(MIN_SPEED + SpeedSteps(d2))

Neg(d) == <<-d[1], -d[2]>>

\* Mutant of Candidate: a tie of the two axes goes to the horizontal axis.
CandidateHorizontalOnTie(prev, cur) ==
    LET dx == cur[1] - prev[1]
        dy == cur[2] - prev[2]
    IN  IF Abs(dx) > GESTURE_THRESHOLD \/ Abs(dy) > GESTURE_THRESHOLD
        THEN IF Abs(dx) >= Abs(dy)
             THEN <<IF dx > 0 THEN 1 ELSE -1, 0>>
             ELSE <<0, IF dy > 0 THEN 1 ELSE -1>>
        ELSE None

\* Mutant of Candidate: a tie of the two axes gives a diagonal.
CandidateDiagonalOnTie(prev, cur) ==
    LET dx == cur[1] - prev[1]
        dy == cur[2] - prev[2]
    IN  IF Abs(dx) > GESTURE_THRESHOLD \/ Abs(dy) > GESTURE_THRESHOLD
        THEN IF Abs(dx) > Abs(dy)
             THEN <<IF dx > 0 THEN 1 ELSE -1, 0>>
             ELSE IF Abs(dy) > Abs(dx)
                  THEN <<0, IF dy > 0 THEN 1 ELSE -1>>
                  ELSE <<IF dx > 0 THEN 1 ELSE -1, IF dy > 0 THEN 1 ELSE -1>>
        ELSE None

\* The candidate direction of a displacement, or None below the threshold.
Candidate(prev, cur) ==
    LET dx == cur[1] - prev[1]
        dy == cur[2] - prev[2]
    IN  IF Abs(dx) > GESTURE_THRESHOLD \/ Abs(dy) > GESTURE_THRESHOLD
        THEN IF Abs(dx) > Abs(dy)
             THEN <<IF dx > 0 THEN 1 ELSE -1, 0>>
             ELSE <<0, IF dy > 0 THEN 1 ELSE -1>>
        ELSE None

\* Mutant of Accepted: `and` in place of `or`.
AcceptedBothDiffer(cand, dir) == cand[1] # -dir[1] /\ cand[2] # -dir[2]

\* if new_dir[0] != -direction[0] or new_dir[1] != -direction[1]
Accepted(cand, dir) == cand[1] # -dir[1] \/ cand[2] # -dir[2]

\* game.direction after a candidate has been proposed.
Steer(cand, dir) == IF Accepted(cand, dir) THEN cand ELSE dir

NewHead(s, dir) == <<s[1][1] + dir[1], s[1][2] + dir[2]>>

\* Mutant of OutOfGrid: the upper bounds are not tested.
OutOfGridLowOnly(c) == c[1] < 0 \/ c[2] < 0

\* new_head[0] < 0 or >= GRID_WIDTH or new_head[1] < 0 or >= GRID_HEIGHT
OutOfGrid(c) == c[1] < 0 \/ c[1] >= GRID_WIDTH \/ c[2] < 0 \/ c[2] >= GRID_HEIGHT

\* Mutant of Collides: the cell the tail is about to leave counts as free.
CollidesTailFree(c, s) == InSnake(c, SubSeq(s, 1, Len(s) - 1)) \/ OutOfGrid(c)

\* Mutant of Collides: the test `new_head in self.snake` is missing.
CollidesWallOnly(c, s) == OutOfGrid(c)

\* if new_head in self.snake or new_head is outside the grid
Collides(c, s) == InSnake(c, s) \/ OutOfGrid(c)

\* Mutant of FreeCells: new_food returns its first draw.
AnyCell(s) == Cells

\* The cells new_food can return.
FreeCells(s) == {c \in Cells : ~InSnake(c, s)}

\* Mutant of Pop: the tail is never dropped.
PopNothing(s) == s

\* self.snake.pop()
Pop(s) == SubSeq(s, 1, Len(s) - 1)

Centre == <<GRID_WIDTH \div 2, GRID_HEIGHT \div 2>>
InitialDirection == <<0, 0>>

\* Mutant of TickDue: `>=` in place of `>`.
TickDueAtInterval == elapsed * current_speed >= 1000

\* time.time() - last_update > 1 / current_speed
TickDue == elapsed * current_speed > 1000

(***************************************************************************)
(* Construction: game = SnakeGame(); last_update = now; current_speed.     *)
(***************************************************************************)
Init ==
    /\ snake = <<Centre>>
    /\ direction = InitialDirection
    /\ food \in FreeCells(<<Centre>>)
    /\ score = 0
    /\ game_over = FALSE
    /\ prev_hand_pos = None
    /\ current_speed = MIN_SPEED
    /\ elapsed = 0
    /\ hand_pos = None
    /\ distance2 = 0
    /\ new_dir = None
    /\ pc = "frame"
    /\ released = 0

(***************************************************************************)
(* One loop iteration, in three steps: frame, tick, key.                   *)
(***************************************************************************)
\* cap.read() fails: break, then cap.release() and cv2.destroyAllWindows().
ReadFail ==
    /\ pc = "frame"
    /\ released' = released + 1
    /\ pc' = "done"
    /\ UNCHANGED <<game, prev_hand_pos, current_speed, elapsed, hand_pos, distance2, new_dir>>

\* Mutant of NoHandFrame: the remembered hand position is cleared.
NoHandFrameForgets ==
    /\ pc = "frame"
    /\ \E dt \in Dts : elapsed' = Min(elapsed + dt, MaxElapsed)
    /\ hand_pos' = None
    /\ distance2' = 0
    /\ new_dir' = None
    /\ prev_hand_pos' = None
    /\ pc' = "tick"
    /\ UNCHANGED <<game, current_speed, released>>

\* Mutant of NoHandFrame: the speed process_hands returns is always taken.
NoHandFrameMinSpeed ==
    /\ pc = "frame"
    /\ \E dt \in Dts : elapsed' = Min(elapsed + dt, MaxElapsed)
    /\ hand_pos' = None
    /\ distance2' = 0
    /\ new_dir' = None
    /\ current_speed' = MIN_SPEED
    /\ pc' = "tick"
    /\ UNCHANGED <<game, prev_hand_pos, released>>

\* A frame without a hand: process_hands returns hand_pos = None.
NoHandFrame ==
    /\ pc = "frame"
    /\ \E dt \in Dts : elapsed' = Min(elapsed + dt, MaxElapsed)
    /\ hand_pos' = None
    /\ distance2' = 0
    /\ new_dir' = None
    /\ pc' = "tick"
    /\ UNCHANGED <<game, prev_hand_pos, current_speed, released>>

\* A frame with a hand at wrist, middle finger tip at tip.
HandFrame(wrist, tip) ==
    /\ pc = "frame"
    /\ \E dt \in Dts : elapsed' = Min(elapsed + dt, MaxElapsed)
    /\ hand_pos' = HandPos(wrist)
    /\ distance2' = Distance2(wrist, tip)
    /\ current_speed' = SpeedOf(distance2')
    /\ new_dir' = IF prev_hand_pos = None THEN None
                  ELSE Candidate(prev_hand_pos, HandPos(wrist))
    /\ direction' = IF new_dir' = None THEN direction ELSE Steer(new_dir', direction)
    /\ prev_hand_pos' = HandPos(wrist)
    /\ pc' = "tick"
    /\ UNCHANGED <<snake, food, score, game_over, released>>

\* A frame with a hand, for the landmarks of the model.
AnyHandFrame == \E w \in Wrists, o \in TipOffsets : HandFrame(w, <<w[1] - o[1], w[2] - o[2]>>)

\* The interval has not elapsed: no update.
TickSkip ==
    /\ pc = "tick"
    /\ ~TickDue
    /\ pc' = "key"
    /\ UNCHANGED <<game, prev_hand_pos, current_speed, elapsed, hand_pos, distance2, new_dir, released>>

\* Mutant of TickGameOver: update lacks its early return and moves the snake.
TickGameOverMoves ==
    /\ pc = "tick"
    /\ TickDue
    /\ game_over
    /\ snake' = IF Collides(NewHead(snake, direction), snake)
                THEN snake
                ELSE Pop(<<NewHead(snake, direction)>> \o snake)
    /\ elapsed' = 0
    /\ pc' = "key"
    /\ UNCHANGED <<direction, food, score, game_over, prev_hand_pos, current_speed,
                   hand_pos, distance2, new_dir, released>>

\* update() while game_over: returns at once; last_update is still set.
TickGameOver ==
    /\ pc = "tick"
    /\ TickDue
    /\ game_over
    /\ elapsed' = 0
    /\ pc' = "key"
    /\ UNCHANGED <<game, prev_hand_pos, current_speed, hand_pos, distance2, new_dir, released>>

\* update(): the new head collides.
TickCollide ==
    /\ pc = "tick"
    /\ TickDue
    /\ ~game_over
    /\ Collides(NewHead(snake, direction), snake)
    /\ game_over' = TRUE
    /\ elapsed' = 0
    /\ pc' = "key"
    /\ UNCHANGED <<snake, direction, food, score, prev_hand_pos, current_speed,
                   hand_pos, distance2, new_dir, released>>

\* Mutant of TickEat: the score is not incremented.
TickEatNoScore ==
    /\ pc = "tick"
    /\ TickDue
    /\ ~game_over
    /\ ~Collides(NewHead(snake, direction), snake)
    /\ NewHead(snake, direction) = food
    /\ snake' = <<NewHead(snake, direction)>> \o snake
    /\ food' \in FreeCells(snake')
    /\ elapsed' = 0
    /\ pc' = "key"
    /\ UNCHANGED <<direction, score, game_over, prev_hand_pos, current_speed, hand_pos,
                   distance2, new_dir, released>>

\* update(): the new head is the food cell and new_food finds a free cell.
TickEat ==
    /\ pc = "tick"
    /\ TickDue
    /\ ~game_over
    /\ ~Collides(NewHead(snake, direction), snake)
    /\ NewHead(snake, direction) = food
    /\ snake' = <<NewHead(snake, direction)>> \o snake
    /\ score' = score + 1
    /\ food' \in FreeCells(snake')
    /\ elapsed' = 0
    /\ pc' = "key"
    /\ UNCHANGED <<direction, game_over, prev_hand_pos, current_speed, hand_pos,
                   distance2, new_dir, released>>

\* update(): the new head is the food cell and the snake now fills the grid:
\* new_food is entered and never returns.
TickEatFull ==
    /\ pc = "tick"
    /\ TickDue
    /\ ~game_over
    /\ ~Collides(NewHead(snake, direction), snake)
    /\ NewHead(snake, direction) = food
    /\ snake' = <<NewHead(snake, direction)>> \o snake
    /\ score' = score + 1
    /\ FreeCells(snake') = {}
    /\ pc' = "new_food"
    /\ UNCHANGED <<direction, food, game_over, prev_hand_pos, current_speed, elapsed,
                   hand_pos, distance2, new_dir, released>>

\* One more round of new_food's `while True` with every cell occupied.
NewFoodRetry ==
    /\ pc = "new_food"
    /\ FreeCells(snake) = {}
    /\ UNCHANGED vars

\* update(): a plain move.
TickMove ==
    /\ pc = "tick"
    /\ TickDue
    /\ ~game_over
    /\ ~Collides(NewHead(snake, direction), snake)
    /\ NewHead(snake, direction) # food
    /\ snake' = Pop(<<NewHead(snake, direction)>> \o snake)
    /\ elapsed' = 0
    /\ pc' = "key"
    /\ UNCHANGED <<direction, food, score, game_over, prev_hand_pos, current_speed,
                   hand_pos, distance2, new_dir, released>>

\* Mutant of KeyQuit: the program exits inside the loop, releasing nothing.
KeyQuitNoRelease ==
    /\ pc = "key"
    /\ pc' = "done"
    /\ UNCHANGED <<game, prev_hand_pos, current_speed, elapsed, hand_pos, distance2, new_dir,
                   released>>

\* key == ord('q'): break, then cap.release() and cv2.destroyAllWindows().
KeyQuit ==
    /\ pc = "key"
    /\ released' = released + 1
    /\ pc' = "done"
    /\ UNCHANGED <<game, prev_hand_pos, current_speed, elapsed, hand_pos, distance2, new_dir>>

\* Mutant of KeyReset: reset leaves the score.
KeyResetKeepsScore ==
    /\ pc = "key"
    /\ snake' = <<Centre>>
    /\ direction' = InitialDirection
    /\ food' \in FreeCells(snake')
    /\ game_over' = FALSE
    /\ current_speed' = MIN_SPEED
    /\ pc' = "frame"
    /\ UNCHANGED <<score, prev_hand_pos, elapsed, hand_pos, distance2, new_dir, released>>

\* key == ord('r'): game.reset(); current_speed = MIN_SPEED.
KeyReset ==
    /\ pc = "key"
    /\ snake' = <<Centre>>
    /\ direction' = InitialDirection
    /\ food' \in FreeCells(snake')
    /\ score' = 0
    /\ game_over' = FALSE
    /\ current_speed' = MIN_SPEED
    /\ pc' = "frame"
    /\ UNCHANGED <<prev_hand_pos, elapsed, hand_pos, distance2, new_dir, released>>

\* Any other key, or none: next iteration.
KeyOther ==
    /\ pc = "key"
    /\ pc' = "frame"
    /\ UNCHANGED <<game, prev_hand_pos, current_speed, elapsed, hand_pos, distance2, new_dir, released>>

Next ==
    \/ ReadFail
    \/ NoHandFrame
    \/ AnyHandFrame
    \/ TickSkip
    \/ TickGameOver
    \/ TickCollide
    \/ TickEat
    \/ TickEatFull
    \/ NewFoodRetry
    \/ TickMove
    \/ KeyQuit
    \/ KeyReset
    \/ KeyOther

Spec == Init /\ [][Next]_vars

(***************************************************************************)
(* A still hand: the wrist stays at one landmark while the hand span takes *)
(* every value of a fine grid.  No gesture is ever made, so the game stays *)
(* at its start position; the loop, the clock and the keys are as in Spec. *)
(***************************************************************************)
\* The largest hand span of the grid, in thousandths.
MaxSpan == 500

\* Spans on both sides of every step of the speed formula.
SpanGrid == {d \in 0 .. MaxSpan : d % 20 \in {0, 10, 19}}

StillWrist == <<500, 100>>

WideOffsets == {<<d, 0>> : d \in SpanGrid} \cup TipOffsets

StillHandFrame ==
    \E o \in WideOffsets : HandFrame(StillWrist, <<StillWrist[1] - o[1], StillWrist[2] - o[2]>>)

NextSpeed ==
    \/ ReadFail
    \/ NoHandFrame
    \/ StillHandFrame
    \/ TickSkip
    \/ TickGameOver
    \/ TickCollide
    \/ KeyQuit
    \/ KeyReset
    \/ KeyOther

SpecSpeed == Init /\ [][NextSpeed]_vars

(***************************************************************************)
(* Properties.                                                             *)
(***************************************************************************)
Zero == <<0, 0>>
Units == {<<1, 0>>, <<-1, 0>>, <<0, 1>>, <<0, -1>>}

Distinct(s) == \A i, j \in 1 .. Len(s) : i # j => s[i] # s[j]

\* main() is about to call game.update(game.direction).
UpdateCalled == pc = "tick" /\ TickDue

\* The call of update computes a new head, and it is the food cell.
Eats == UpdateCalled /\ ~game_over /\ NewHead(snake, direction) = food

\* C1: the snake's cells are pairwise distinct in every reachable state, and
\* a call of update whose new head is a cell of the snake leaves the snake as
\* it is and ends with game_over set.
C1_NoSelfOverlap ==
    /\ [](Distinct(snake))
    /\ [][(UpdateCalled /\ InSnake(NewHead(snake, direction), snake))
            => (game_over' /\ snake' = snake)]_vars

\* C1 witness: the game ended because the head ran into a body cell that is
\* not its neck.
C1_Witness ==
    /\ pc = "key" /\ elapsed = 0 /\ game_over
    /\ Len(snake) >= 4
    /\ InSnake(NewHead(snake, direction), snake)
    /\ NewHead(snake, direction) # snake[2]

\* C2: outside an unfinished call of new_food, the food cell is inside the
\* grid and is not a cell of the snake.
C2_FoodOffSnake == pc # "new_food" => (food \in Cells /\ ~InSnake(food, snake))

\* C2 witness: food has been eaten twice and respawned next to a snake of
\* three cells.
C2_Witness == pc = "key" /\ score >= 2 /\ Len(snake) >= 3 /\ ~game_over

\* C3: the tick step of an iteration leaves the length of the snake unchanged,
\* except that a call of update whose new head is the food cell adds one.
C3_LengthOnTick ==
    [][pc = "tick" => Len(snake') = Len(snake) + (IF Eats THEN 1 ELSE 0)]_vars

\* C3 witness: an update has just run on a snake that has grown three times.
C3_Witness == pc = "key" /\ elapsed = 0 /\ Len(snake) >= 4 /\ ~game_over

\* C4: when a frame proposes a candidate direction, the direction is left
\* unchanged if the candidate is the negation of the current direction, and
\* becomes the candidate otherwise, whatever the length of the snake.
C4_ReversalRejected ==
    [][(pc = "frame" /\ pc' = "tick" /\ new_dir' # None)
         => direction' = (IF new_dir' = Neg(direction) THEN direction ELSE new_dir')]_vars

\* C4 witness: a snake longer than one cell has just had a reversal rejected.
C4_Witness ==
    /\ pc = "tick" /\ new_dir # None /\ new_dir = Neg(direction)
    /\ Len(snake) > 1 /\ ~game_over

\* C5: a call of update adds one to the score when the new head is the food
\* cell and leaves it unchanged otherwise, the processing of a frame leaves
\* the score unchanged, and the score is the number of cells the snake has
\* gained since the last reset.
C5_ScoreCountsFood ==
    /\ [](score = Len(snake) - 1)
    /\ [][/\ pc = "tick" => score' = score + (IF Eats THEN 1 ELSE 0)
          /\ pc = "frame" => score' = score]_vars

\* C5 witness: the score has reached three.
C5_Witness == pc = "key" /\ elapsed = 0 /\ score = 3

\* C6 as stated: in GameOver, every step other than a reset leaves snake,
\* food, score, direction and game_over unchanged.
C6_Original ==
    [][(game_over /\ ~KeyReset)
         => UNCHANGED <<snake, food, score, direction, game_over>>]_vars

\* C6 amended: in GameOver, every step other than a reset leaves snake, food,
\* score and game_over unchanged, and a call of update leaves the direction
\* unchanged too; only the processing of a frame may still change it.
C6_GameOverFrozen ==
    [][(game_over /\ ~KeyReset)
         => /\ UNCHANGED <<snake, food, score, game_over>>
            /\ pc # "frame" => direction' = direction]_vars

\* C6 witness: the game is over and a gesture has since turned the direction
\* towards a cell the snake could move to.
C6_Witness ==
    /\ game_over /\ pc = "key" /\ elapsed = 0
    /\ new_dir # None /\ direction = new_dir
    /\ ~Collides(NewHead(snake, direction), snake)

\* The state a reset leaves, apart from prev_hand_pos.
AfterReset ==
    /\ snake' = <<Centre>>
    /\ direction' = InitialDirection
    /\ score' = 0
    /\ game_over' = FALSE
    /\ food' \in Cells /\ ~InSnake(food', snake')
    /\ current_speed' = MIN_SPEED

\* C7 as stated: the restart command leaves the state of a newly constructed
\* game, the remembered hand position cleared.
C7_Original == [][KeyReset => (AfterReset /\ prev_hand_pos' = None)]_vars

\* C7 amended: the restart command leaves the snake, direction, score,
\* game_over, food and speed of a newly constructed game, and keeps the
\* remembered hand position as it was.
C7_ResetClearsGame == [][KeyReset => (AfterReset /\ prev_hand_pos' = prev_hand_pos)]_vars

\* C7 witness: a reset has just been made in an iteration whose gesture had
\* set a direction, and the hand position is still remembered.
C7_Witness ==
    /\ pc = "frame" /\ snake = <<Centre>> /\ direction = InitialDirection
    /\ score = 0 /\ ~game_over /\ current_speed = MIN_SPEED
    /\ new_dir # None /\ prev_hand_pos # None

\* C8 as stated: the direction is one of the four unit vectors.
C8_Original == direction \in Units

\* C8 amended: the direction is one of the four unit vectors or (0, 0), the
\* value construction and reset give it; while it is (0, 0) the snake is the
\* single centre cell and the score is 0.
C8_DirectionUnitOrZero ==
    \/ direction \in Units
    \/ direction = Zero /\ snake = <<Centre>> /\ score = 0

\* C8 witness: the direction is still (0, 0) after a frame with a hand.
C8_Witness == direction = Zero /\ pc = "tick" /\ hand_pos # None /\ ~game_over

\* C9: the speed is in MIN_SPEED .. MAX_SPEED in every state; after a frame
\* with a hand it is MIN_SPEED for a span of at most MIN_DISTANCE, MAX_SPEED
\* for a span of at least MAX_DISTANCE, and at least the speed of every
\* smaller span.
C9_SpeedInRange ==
    /\ current_speed \in MIN_SPEED .. MAX_SPEED
    /\ current_speed # 0
    /\ (pc = "tick" /\ hand_pos # None) =>
         /\ distance2 <= MIN_DISTANCE * MIN_DISTANCE => current_speed = MIN_SPEED
         /\ distance2 >= MAX_DISTANCE * MAX_DISTANCE => current_speed = MAX_SPEED
         /\ \A d \in SpanGrid : d * d <= distance2 => SpeedOf(d * d) <= current_speed

\* C9 witness: a span strictly between the two distances gave a speed
\* strictly between the two speeds.
C9_Witness ==
    /\ pc = "tick" /\ hand_pos # None
    /\ distance2 > MIN_DISTANCE * MIN_DISTANCE /\ distance2 < MAX_DISTANCE * MAX_DISTANCE
    /\ current_speed > MIN_SPEED /\ current_speed < MAX_SPEED

\* C10 as stated: as long as no gesture has set a direction since the start
\* or the last reset, the game is Running with its snake and score unchanged.
C10_Original ==
    direction = InitialDirection => (~game_over /\ snake = <<Centre>> /\ score = 0)

\* The direction of the snake's last move: from its neck to its head.
LastMove == <<snake[1][1] - snake[2][1], snake[1][2] - snake[2][2]>>

\* C11 as stated: when update is called on a running snake longer than one
\* cell, the direction is not the reverse of the snake's last move.
C11_Original ==
    (UpdateCalled /\ ~game_over /\ Len(snake) > 1) => direction # Neg(LastMove)

\* C12 as stated: a call of update on a running game whose new head does not
\* collide returns with the new head in front of the old snake, one more
\* point and a fresh food off the snake when the new head is the food cell,
\* and with the new head in front of the old snake less its last cell, the
\* same food and the same score otherwise; game_over stays false and the
\* direction is unchanged.
C12_Original ==
    [][(UpdateCalled /\ ~game_over
          /\ NewHead(snake, direction) \in Cells
          /\ \A i \in 1 .. Len(snake) : snake[i] # NewHead(snake, direction))
         => /\ pc' = "key"
            /\ ~game_over'
            /\ direction' = direction
            /\ IF NewHead(snake, direction) = food
               THEN /\ snake' = <<NewHead(snake, direction)>> \o snake
                    /\ score' = score + 1
                    /\ food' \in Cells
                    /\ \A i \in 1 .. Len(snake') : snake'[i] # food'
               ELSE /\ snake' = <<NewHead(snake, direction)>>
                                  \o SubSeq(snake, 1, Len(snake) - 1)
                    /\ score' = score
                    /\ food' = food]_vars

\* C13: a call of update on a running game sets game_over exactly when the
\* new head is outside the grid or is any cell of the snake, its last cell
\* included; such a call leaves snake, food, score and direction unchanged.
C13_CollisionEndsGame ==
    [][(UpdateCalled /\ ~game_over)
         => LET h == NewHead(snake, direction)
                hit == \/ h[1] < 0 \/ h[1] >= GRID_WIDTH
                       \/ h[2] < 0 \/ h[2] >= GRID_HEIGHT
                       \/ \E i \in 1 .. Len(snake) : snake[i] = h
            IN  /\ game_over' <=> hit
                /\ hit => UNCHANGED <<snake, food, score, direction>>]_vars

\* C13 witness: the game has just ended by a move onto the cell of the tail.
C13_Witness ==
    /\ pc = "key" /\ elapsed = 0 /\ game_over
    /\ Len(snake) >= 4
    /\ NewHead(snake, direction) = snake[Len(snake)]

\* C14 as stated: new_food is never entered with every cell of the grid
\* occupied by the snake, the state from which it cannot return.
C14_Original == ~(pc = "new_food" /\ FreeCells(snake) = {})

\* The frame step of an iteration has processed a frame.
FrameProcessed == pc = "frame" /\ pc' = "tick"

\* C15: a frame with a hand, a hand position being remembered, proposes no
\* candidate and leaves the direction when both |dx| and |dy| are at most 20;
\* otherwise the candidate is (sign dx, 0) when |dx| > |dy| and (0, sign dy)
\* when |dy| >= |dx|, and it becomes the direction unless it is the negation
\* of the direction.
C15_GestureClassified ==
    [][(FrameProcessed /\ hand_pos' # None /\ prev_hand_pos # None)
         => LET dx  == hand_pos'[1] - prev_hand_pos[1]
                dy  == hand_pos'[2] - prev_hand_pos[2]
                adx == IF dx < 0 THEN -dx ELSE dx
                ady == IF dy < 0 THEN -dy ELSE dy
                cand == IF adx > ady
                        THEN <<IF dx > 0 THEN 1 ELSE -1, 0>>
                        ELSE <<0, IF dy > 0 THEN 1 ELSE -1>>
            IN  IF adx <= 20 /\ ady <= 20
                THEN new_dir' = None /\ direction' = direction
                ELSE /\ new_dir' = cand
                     /\ direction' = (IF cand = <<-direction[1], -direction[2]>>
                                      THEN direction ELSE cand)]_vars

\* C15 witness: a vertical candidate has just turned a snake of two cells or
\* more that had moved horizontally.
C15_Witness ==
    /\ pc = "tick" /\ hand_pos # None /\ ~game_over
    /\ new_dir \in {<<0, 1>>, <<0, -1>>} /\ direction = new_dir
    /\ Len(snake) > 1 /\ LastMove \in {<<1, 0>>, <<-1, 0>>}

\* C16 as stated: a candidate is proposed only when the frame before had a
\* hand too, so that the displacement is that of two consecutive frames.
C16_Original == [][(FrameProcessed /\ new_dir' # None) => hand_pos # None]_vars

\* C16 amended: the remembered hand position is that of the last frame in
\* which a hand was detected; only a frame with a hand replaces it, no-hand
\* frames, ticks and keys (reset included) keep it, and a frame with a hand
\* classifies its displacement from it however old it is.
C16_PrevIsLastDetected ==
    [][/\ FrameProcessed
            => prev_hand_pos' = (IF hand_pos' # None THEN hand_pos' ELSE prev_hand_pos)
       /\ (FrameProcessed /\ hand_pos' # None /\ prev_hand_pos # None)
            => (new_dir' # None <=>
                  \/ hand_pos'[1] - prev_hand_pos[1] > 20
                  \/ prev_hand_pos[1] - hand_pos'[1] > 20
                  \/ hand_pos'[2] - prev_hand_pos[2] > 20
                  \/ prev_hand_pos[2] - hand_pos'[2] > 20)
       /\ pc # "frame" => prev_hand_pos' = prev_hand_pos]_vars

\* C16 witness: a hand position is still remembered after a frame without a
\* hand, in a running game.
C16_Witness ==
    /\ pc = "frame" /\ hand_pos = None /\ prev_hand_pos # None
    /\ Len(snake) > 1 /\ ~game_over

\* C17: a frame without a hand leaves current_speed, direction and the
\* remembered hand position unchanged, and the update of that iteration, when
\* it is due and the new head is free, moves the head by the direction.
C17_NoHandPersists ==
    [][/\ (FrameProcessed /\ hand_pos' = None)
            => UNCHANGED <<current_speed, direction, prev_hand_pos>>
       /\ (pc = "tick" /\ hand_pos = None /\ elapsed * current_speed > 1000
             /\ ~game_over /\ ~Collides(NewHead(snake, direction), snake))
            => snake'[1] = <<snake[1][1] + direction[1], snake[1][2] + direction[2]>>]_vars

\* C17 witness: the snake has just moved in an iteration without a hand, at
\* a speed above MIN_SPEED kept from an earlier frame.
C17_Witness ==
    /\ pc = "key" /\ elapsed = 0 /\ hand_pos = None /\ ~game_over
    /\ Len(snake) >= 2 /\ current_speed > MIN_SPEED

\* Two cells are orthogonally adjacent.
Adjacent(a, b) ==
    LET dx == a[1] - b[1]
        dy == a[2] - b[2]
    IN  (IF dx < 0 THEN -dx ELSE dx) + (IF dy < 0 THEN -dy ELSE dy) = 1

\* C18: the snake is non-empty, each of its cells is inside the grid, and
\* consecutive cells are orthogonally adjacent.
C18_SnakeWellFormed ==
    /\ Len(snake) >= 1
    /\ \A i \in 1 .. Len(snake) :
         /\ snake[i][1] >= 0 /\ snake[i][1] < GRID_WIDTH
         /\ snake[i][2] >= 0 /\ snake[i][2] < GRID_HEIGHT
    /\ \A i \in 1 .. Len(snake) - 1 : Adjacent(snake[i], snake[i + 1])

\* C18 witness: a running snake of four cells or more with a bend, its head
\* on the border of the grid.
C18_Witness ==
    /\ Len(snake) >= 4 /\ ~game_over
    /\ snake[1][1] # snake[3][1] /\ snake[1][2] # snake[3][2]
    /\ snake[1][1] = GRID_WIDTH - 1

\* A step has the effect of update: the snake, the score or game_over := True,
\* or last_update is set.
UpdateEffect ==
    \/ snake' # snake /\ snake' # <<Centre>>
    \/ score' > score
    \/ ~game_over /\ game_over'
    \/ elapsed' = 0 /\ elapsed # 0

\* A step has the effect of reset.
ResetEffect ==
    \/ score' < score
    \/ game_over /\ ~game_over'
    \/ direction' = Zero /\ direction # Zero

\* C19: update runs only in the tick step of an iteration, which is taken
\* once per frame, and only when the time since the last update times the
\* speed strictly exceeds one second; otherwise the tick step changes
\* nothing.  The head moves by the direction the frame step of the same
\* iteration left, which is its candidate unless the candidate was rejected.
\* A reset happens only in the key step, after the tick step, and leaves the
\* time since the last update as it is.
C19_OneTickPerIteration ==
    [][/\ UpdateEffect => (pc = "tick" /\ elapsed * current_speed > 1000)
       /\ pc = "tick" => pc' # "tick"
       /\ pc' = "tick" => pc = "frame"
       /\ (pc = "tick" /\ elapsed * current_speed <= 1000)
            => UNCHANGED <<snake, direction, food, score, game_over, elapsed>>
       /\ (pc = "tick" /\ snake' # snake)
            => /\ snake'[1] = <<snake[1][1] + direction[1], snake[1][2] + direction[2]>>
               /\ new_dir # None => (direction = new_dir \/ new_dir = Neg(direction))
       /\ ResetEffect => (pc = "key" /\ elapsed' = elapsed)]_vars

\* C19 witness: the tick step has just been skipped with the time since the
\* last update exactly at the interval, on a running snake of two cells.
C19_Witness ==
    /\ pc = "key" /\ elapsed * current_speed = 1000
    /\ ~game_over /\ Len(snake) > 1

\* C20: the loop has ended exactly when the camera and the windows have been
\* released, which happens once; the loop ends only from the frame step (a
\* failed read) or the key step (the quit key), in a step that changes
\* nothing else, and no step follows.
C20_LoopEndsAndReleases ==
    /\ [](released <= 1 /\ (pc = "done" <=> released = 1))
    /\ [][/\ pc # "done"
          /\ pc' = "done"
               => /\ pc \in {"frame", "key"}
                  /\ UNCHANGED <<snake, direction, food, score, game_over, prev_hand_pos,
                                 current_speed, elapsed, hand_pos, distance2, new_dir>>]_vars

\* C20 witness: the loop has ended after the snake had eaten, the camera
\* released once.
C20_Witness == pc = "done" /\ released = 1 /\ score >= 1
====
